---------------------------- MODULE Spec2Model ----------------------------
(***************************************************************************)
(* Model of src/lib/src/blockify.rs: the block signature builder           *)
(* (get_average_colors), the closest-match resolver (get_closest_match)    *)
(* and the mosaic compositor (blockify_images).                            *)
(*                                                                         *)
(* Two specifications share the module:                                    *)
(*   Spec          the whole run of blockify: phase 1, one task per        *)
(*                 candidate block, then phase 2, one task per texture;    *)
(*   SpecResolver  get_closest_match alone, one recursion round per step,  *)
(*                 over bounded palettes and query colours.                *)
(*                                                                         *)
(* Values.  Rgba<u8> is a 4-tuple <<r, g, b, a>>; LabValue is a 3-tuple;   *)
(* Pixel = (f64, Rgba<u8>, LabValue) is <<score, rgba, lab>>;              *)
(* Block = (String, Vec<Pixel>) is <<path, entries>>; a String is the      *)
(* tuple of its bytes, so that Rust's byte-wise ordering can be computed.  *)
(* The colour conversions of the lab and deltae crates are external: the   *)
(* model keeps a table of rounded CIE Lab values for the colours it uses   *)
(* and a surrogate of the DE2000 difference (symmetric, zero exactly on    *)
(* equal inputs).  A difference is a fixed-point number with 8 fractional  *)
(* bits, so that the division of a sum of differences by pixel_count       *)
(* (256 for every image that gets that far) is exact, as it is in f64.     *)
(***************************************************************************)
EXTENDS Integers, Sequences, FiniteSets, TLC

VARIABLES
    \* ---- the run of blockify ----
    block_files,          \* candidate paths found in the block directory
    texture_files,        \* target paths found in the output directory
    files,                \* output directory: texture path -> file content
    main,                 \* position of blockify's own thread
    pc1,                  \* phase 1: position of each candidate's task
    distances,            \* phase 1: each task's local Vec<Pixel>
    averages,             \* phase 1: the shared Mutex<Vec<Block>>
    averages_lock,        \* holder of the averages mutex, or None
    average_block_colors, \* the palette handed to blockify_images
    pc2,                  \* phase 2: position of each texture's task
    dimensions,           \* phase 2: each task's local (width, height)
    pixels,               \* phase 2: the shared Mutex<u128> counter
    pixels_lock,          \* holder of the pixels mutex, or None
    pixels_poisoned,      \* a task panicked while it held the pixels mutex
    overflow_checks,      \* the build: arithmetic overflow panics (debug
                          \* profile) or wraps (release profile)
    \* ---- one call of get_closest_match ----
    gcm_pc,               \* "idle", "call", "returned" or "panicked"
    gcm_lab,              \* the query colour
    gcm_palette,          \* the blocks passed to the top-level call
    gcm_blocks,           \* the blocks of the current recursion round
    gcm_depth,            \* number of recursive calls made so far
    gcm_ret               \* the returned path

run_vars == <<block_files, texture_files, files, main, pc1, distances,
              averages, averages_lock, average_block_colors, pc2, dimensions,
              pixels, pixels_lock, pixels_poisoned, overflow_checks>>
gcm_vars == <<gcm_pc, gcm_lab, gcm_palette, gcm_blocks, gcm_depth, gcm_ret>>
vars == <<run_vars, gcm_vars>>

None == <<0>>         \* no task, no path: a value that is not a path
Panic == <<>>        \* outcome of a call that panicked (no path is empty)

(***************************************************************************)
(* Bounds of the model.                                                    *)
(***************************************************************************)
MaxEntries == 2      \* SpecResolver: longest colour sequence of a signature
MaxBlockFiles == 2   \* Spec: most candidate files in the block directory
MaxTextures == 2     \* Spec: most target files in the output directory

(***************************************************************************)
(* Colours.                                                                *)
(***************************************************************************)
BlockSize == 16
Opaque == 255

Black == <<0, 0, 0>>
Gray == <<119, 119, 119>>
White == <<255, 255, 255>>
Colors == {Black, Gray, White}

\* lab::rgbs_to_labs: CIE Lab of an sRGB triple, rounded to integers.
rgbs_to_labs(rgb) ==
    CASE rgb = Black -> <<0, 0, 0>>
      [] rgb = Gray -> <<50, 0, 0>>
      [] rgb = White -> <<100, 0, 0>>

\* get_lab: the alpha channel and the coordinates are ignored.
get_lab(pixel) ==
    LET rgb == <<pixel[3][1], pixel[3][2], pixel[3][3]>>
    IN  rgbs_to_labs(rgb)

Abs(n) == IF n < 0 THEN -n ELSE n

\* DeltaE::new(a, b, DE2000).value(): surrogate of the difference, in 1/256.
DeltaE(a, b) == 256 * (Abs(a[1] - b[1]) + Abs(a[2] - b[2]) + Abs(a[3] - b[3]))

(***************************************************************************)
(* Ordering and sorting.                                                   *)
(***************************************************************************)
\* Iterator::collect: the sequence with every element computed.
collect(f) == SubSeq(f, 1, Len(f))

compare(a, b) ==
    IF a < b THEN "Less" ELSE IF a > b THEN "Greater" ELSE "Equal"

Min(a, b) == IF a < b THEN a ELSE b

cmp_string_shorter_first(a, b) ==
    IF Len(a) # Len(b)
    THEN compare(Len(a), Len(b))
    ELSE LET diff == {i \in 1..Len(a) : a[i] # b[i]}
         IN  IF diff = {}
             THEN "Equal"
             ELSE LET i == CHOOSE k \in diff : \A j \in diff : k <= j
                  IN  compare(a[i], b[i])

\* Ord for String: byte-wise lexicographic, a proper prefix sorts first.
cmp_string(a, b) ==
    LET n == Min(Len(a), Len(b))
        diff == {i \in 1..n : a[i] # b[i]}
    IN  IF diff # {}
        THEN LET i == CHOOSE k \in diff : \A j \in diff : k <= j
             IN  compare(a[i], b[i])
        ELSE compare(Len(a), Len(b))

\* slice::sort_by is a stable sort: element i ends up behind every element
\* that compares Less to it and every earlier element that compares Equal.
sort_by(v, cmp(_, _)) ==
    LET n == Len(v)
        before(j, i) == \/ cmp(v[j], v[i]) = "Less"
                        \/ (cmp(v[j], v[i]) = "Equal" /\ j < i)
        rank == collect([i \in 1..n |->
                            Cardinality({j \in 1..n : before(j, i)}) + 1])
        at == collect([r \in 1..n |-> CHOOSE i \in 1..n : rank[i] = r])
    IN  collect([r \in 1..n |-> v[at[r]]])

by_distance(a, b) == compare(a[1], b[1])
by_path(a, b) == cmp_string(a[2][1], b[2][1])

(***************************************************************************)
(* get_closest_match, one round.                                           *)
(***************************************************************************)
\* lines 130-139: pair every block with the distance of its first entry and
\* sort by that distance.  Indexing block.1[0] panics on an empty sequence.
new_blocks_of(lab, blocks) ==
    sort_by(collect([i \in 1..Len(blocks) |->
                        <<DeltaE(lab, blocks[i][2][1][3]), blocks[i]>>]),
            by_distance)

\* lines 141-145
matches_last(new_blocks) ==
    SelectSeq(new_blocks, LAMBDA item : item[1] = new_blocks[Len(new_blocks)][1])

matches_of(new_blocks) ==
    SelectSeq(new_blocks, LAMBDA item : item[1] = new_blocks[1][1])

\* line 155
sort_by_key_none(matches) == matches

sort_by_key(matches) == sort_by(matches, by_path)

\* lines 158-161: Tail is the slice [1..]
next_colors_of(matches) ==
    collect([i \in 1..Len(matches) |->
                <<matches[i][2][1], Tail(matches[i][2][2])>>])

\* One round: what the body of get_closest_match does before it returns,
\* recurses or panics.
Round(lab, blocks) ==
    IF blocks = <<>> \/ \E i \in 1..Len(blocks) : blocks[i][2] = <<>>
    THEN [tag |-> "panic"]
    ELSE LET matches == matches_of(new_blocks_of(lab, blocks))
         IN  IF Len(matches) = 1
             THEN [tag |-> "single", path |-> matches[1][2][1]]
             ELSE IF ~\E i \in 1..Len(matches) : Len(matches[i][2][2]) > 1
             THEN [tag |-> "by_path", path |-> sort_by_key(matches)[1][2][1]]
             ELSE [tag |-> "recurse", blocks |-> next_colors_of(matches)]

RECURSIVE get_closest_match(_, _)
get_closest_match(lab, blocks) ==
    LET r == Round(lab, blocks)
    IN  CASE r.tag = "panic" -> Panic
          [] r.tag = "recurse" -> get_closest_match(lab, r.blocks)
          [] OTHER -> r.path

(***************************************************************************)
(* SpecResolver: one call of get_closest_match, a recursion round per step.*)
(* The palette is any sequence of blocks with pairwise distinct paths and  *)
(* non-empty colour sequences of up to MaxEntries entries, each sequence   *)
(* in ascending score order as get_average_colors leaves it.               *)
(***************************************************************************)
PathA == <<97>>
PathAB == <<97, 98>>
PathB == <<98>>
Paths == {PathA, PathAB, PathB}

EntryColors == {Black, White}

Entry(score, rgb) ==
    <<score, <<rgb[1], rgb[2], rgb[3], Opaque>>, rgbs_to_labs(rgb)>>

Signatures ==
    UNION {{[i \in 1..n |-> Entry(i - 1, f[i])] : f \in [1..n -> EntryColors]}
           : n \in 1..MaxEntries}

Palettes ==
    UNION {{[i \in 1..n |-> <<p[i], s[i]>>] :
              p \in {q \in [1..n -> Paths] :
                        \A i, j \in 1..n : q[i] = q[j] => i = j},
              s \in [1..n -> Signatures]}
           : n \in 1..Cardinality(Paths)}

RunIdle ==
    /\ block_files = {}
    /\ texture_files = {}
    /\ files = <<>>
    /\ main = "idle"
    /\ pc1 = <<>>
    /\ distances = <<>>
    /\ averages = <<>>
    /\ averages_lock = None
    /\ average_block_colors = <<>>
    /\ pc2 = <<>>
    /\ dimensions = <<>>
    /\ pixels = 0
    /\ pixels_lock = None
    /\ pixels_poisoned = FALSE
    /\ overflow_checks = FALSE

InitResolver ==
    /\ RunIdle
    /\ gcm_pc = "call"
    /\ gcm_lab \in {rgbs_to_labs(c) : c \in Colors}
    /\ gcm_palette \in Palettes
    /\ gcm_blocks = gcm_palette
    /\ gcm_depth = 0
    /\ gcm_ret = None

\* lines 147-148
GcmReturnSingle ==
    /\ gcm_pc = "call"
    /\ Round(gcm_lab, gcm_blocks).tag = "single"
    /\ gcm_pc' = "returned"
    /\ gcm_ret' = Round(gcm_lab, gcm_blocks).path
    /\ UNCHANGED <<gcm_lab, gcm_palette, gcm_blocks, gcm_depth, run_vars>>

\* lines 154-156
GcmReturnByPath ==
    /\ gcm_pc = "call"
    /\ Round(gcm_lab, gcm_blocks).tag = "by_path"
    /\ gcm_pc' = "returned"
    /\ gcm_ret' = Round(gcm_lab, gcm_blocks).path
    /\ UNCHANGED <<gcm_lab, gcm_palette, gcm_blocks, gcm_depth, run_vars>>

\* lines 158-163
GcmRecurse ==
    /\ gcm_pc = "call"
    /\ Round(gcm_lab, gcm_blocks).tag = "recurse"
    /\ gcm_blocks' = Round(gcm_lab, gcm_blocks).blocks
    /\ gcm_depth' = gcm_depth + 1
    /\ UNCHANGED <<gcm_pc, gcm_lab, gcm_palette, gcm_ret, run_vars>>

\* line 134 (block.1[0]) or line 141 (new_blocks[0]): index out of bounds
GcmPanic ==
    /\ gcm_pc = "call"
    /\ Round(gcm_lab, gcm_blocks).tag = "panic"
    /\ gcm_pc' = "panicked"
    /\ UNCHANGED <<gcm_lab, gcm_palette, gcm_blocks, gcm_depth, gcm_ret, run_vars>>

NextResolver ==
    \/ GcmReturnSingle
    \/ GcmReturnByPath
    \/ GcmRecurse
    \/ GcmPanic

SpecResolver == InitResolver /\ [][NextResolver]_vars

(***************************************************************************)
(* Images and the two directories.                                         *)
(***************************************************************************)
\* A file is what image::open makes of it: valid with its pixels, or not.
Corrupt == [valid |-> FALSE, w |-> 0, h |-> 0, px |-> <<>>]

Rgba(rgb, a) == <<rgb[1], rgb[2], rgb[3], a>>

\* A decoded image: its pixels in row-major order.
Image(w, h, at(_, _)) ==
    [valid |-> TRUE, w |-> w, h |-> h,
     px |-> collect([k \in 1..(w * h) |-> at((k - 1) % w, (k - 1) \div w)])]

\* An image of w * h pixels that are all Rgba([0, 0, 0, 0]), kept without
\* its pixel vector (px = <<>>), and the same image with the vector.
Blank(w, h) == [valid |-> TRUE, w |-> w, h |-> h, px |-> <<>>]

is_blank(img) == img.px = <<>>

explicit(img) ==
    IF is_blank(img)
    THEN Image(img.w, img.h, LAMBDA x, y : <<0, 0, 0, 0>>)
    ELSE img

\* GenericImageView::get_pixel
PixelAt(img, x, y) ==
    IF is_blank(img) THEN <<0, 0, 0, 0>> ELSE img.px[y * img.w + x + 1]

\* GenericImageView::pixels: (x, y, Rgba) in row-major order
pixels_of(img) ==
    collect([k \in 1..Len(img.px) |->
                <<(k - 1) % img.w, (k - 1) \div img.w, img.px[k]>>])

PathC == <<99>>
PathD == <<100>>
PathE == <<101>>
PathF == <<102>>
PathG == <<103>>

\* The candidate files a block directory may hold.
BlockDir ==
    (PathA :> Image(16, 16, LAMBDA x, y : Rgba(Black, 255)))
    @@ (PathAB :> Image(16, 16, LAMBDA x, y :
                     IF y = 15 THEN Rgba(White, 255) ELSE Rgba(Black, 255)))
    @@ (PathB :> Image(16, 16, LAMBDA x, y : Rgba(White, 255)))
    @@ (PathC :> Image(16, 16, LAMBDA x, y :
                     IF x % 2 = 0 THEN Rgba(Black, 255) ELSE Rgba(White, 255)))
    @@ (PathD :> Image(16, 16, LAMBDA x, y :
                     IF x = 15 /\ y = 15 THEN Rgba(White, 254) ELSE Rgba(White, 255)))
    @@ (PathE :> Image(16, 17, LAMBDA x, y : Rgba(Black, 255)))
    @@ (PathF :> Image(15, 16, LAMBDA x, y : Rgba(Black, 255)))
    @@ (PathG :> Corrupt)

PathH == <<104>>
PathT == <<116>>
PathU == <<117>>
PathX == <<120>>

\* The target files an output directory may hold, as copied from the pack.
OutputDir ==
    (PathT :> Image(1, 2, LAMBDA x, y :
                     IF y = 0 THEN Rgba(Black, 200) ELSE Rgba(Gray, 0)))
    @@ (PathU :> Image(2, 1, LAMBDA x, y :
                     IF x = 0 THEN Rgba(White, 255) ELSE Rgba(Gray, 1)))
    @@ (PathH :> Blank(4096, 4096))
    @@ (PathX :> Corrupt)

(***************************************************************************)
(* get_average_colors: the body of one task, lines 47-69.                  *)
(***************************************************************************)
\* line 48
wrong_size_both(img) == img.w # BlockSize /\ img.h # BlockSize

wrong_size(img) == img.w # BlockSize \/ img.h # BlockSize

\* The loops over the pixels of an image are folds over lo..hi that split
\* the range in two, first half first: the steps run in the order of the
\* code's loop, without a recursion as deep as the image has pixels.

\* lines 56-63: the inner loop returns from the task at the first sub_pixel
\* that is not fully opaque.
RECURSIVE sum_deltas(_, _, _, _, _)
sum_deltas(acc, lab, sub_pixels, lo, hi) ==
    IF lo > hi \/ acc.returned
    THEN acc
    ELSE IF lo = hi
    THEN IF sub_pixels[lo][3][4] < Opaque
         THEN [acc EXCEPT !.returned = TRUE]
         ELSE [acc EXCEPT !.distance = @ + DeltaE(lab, get_lab(sub_pixels[lo]))]
    ELSE LET mid == (lo + hi) \div 2
             first_half == sum_deltas(acc, lab, sub_pixels, lo, mid)
         IN  sum_deltas(first_half, lab, sub_pixels, mid + 1, hi)

\* lines 53-66
RECURSIVE push_distances(_, _, _, _, _)
push_distances(acc, pxs, pixel_count, lo, hi) ==
    IF lo > hi \/ acc.returned
    THEN acc
    ELSE IF lo = hi
    THEN LET lab == get_lab(pxs[lo])
             sum == sum_deltas([returned |-> FALSE, distance |-> 0],
                               lab, pxs, 1, Len(pxs))
         IN  IF sum.returned
             THEN [acc EXCEPT !.returned = TRUE]
             ELSE [acc EXCEPT !.distances =
                      Append(@, <<sum.distance \div pixel_count, pxs[lo][3], lab>>)]
    ELSE LET mid == (lo + hi) \div 2
             first_half == push_distances(acc, pxs, pixel_count, lo, mid)
         IN  push_distances(first_half, pxs, pixel_count, mid + 1, hi)

by_score(a, b) == compare(a[1], b[1])

\* Vec::dedup: removes every element equal to the one before it.
dedup(v) ==
    LET paired == collect([k \in 1..Len(v) |->
                             <<v[k], IF k = 1 THEN <<>> ELSE v[k - 1]>>])
        kept == SelectSeq(paired, LAMBDA p : p[1] # p[2])
    IN  collect([k \in 1..Len(kept) |-> kept[k][1]])

\* The task of one candidate: "panic" (the file does not decode), "return"
\* (nothing is pushed) or "push" with the Vec<Pixel> to push.
average(content) ==
    IF ~content.valid
    THEN [tag |-> "panic"]
    ELSE IF wrong_size(content)
    THEN [tag |-> "return"]
    ELSE LET pxs == pixels_of(content)
             r == push_distances([returned |-> FALSE, distances |-> <<>>],
                                 pxs, content.w * content.h, 1, Len(pxs))
         IN  IF r.returned
             THEN [tag |-> "return"]
             ELSE LET d == dedup(sort_by(r.distances, by_score))
                  IN  IF d # <<>>
                      THEN [tag |-> "push", distances |-> d]
                      ELSE [tag |-> "return"]

\* The outcome of the task of every file of BlockDir, which no step changes.
Averaged == [p \in DOMAIN BlockDir |-> average(BlockDir[p])]

(***************************************************************************)
(* blockify_images: the body of one task, lines 93-119.                    *)
(***************************************************************************)
\* ImageBuffer::from_fn(width, height, |_, _| Rgba([0, 0, 0, 0]))
from_fn(w, h) == Blank(w, h)

\* ImageBuffer::put_pixel panics outside the buffer.
put_pixel(res, x, y, rgba) ==
    IF ~res.ok
    THEN res
    ELSE IF x < res.img.w /\ y < res.img.h
    THEN [ok |-> TRUE,
          img |-> [explicit(res.img) EXCEPT !.px[y * res.img.w + x + 1] = rgba]]
    ELSE [ok |-> FALSE]

\* lines 111-116
tile_rgba_own_alpha(sub_pixel, alpha) ==
    <<sub_pixel[3][1], sub_pixel[3][2], sub_pixel[3][3], sub_pixel[3][4]>>

tile_rgba(sub_pixel, alpha) ==
    <<sub_pixel[3][1], sub_pixel[3][2], sub_pixel[3][3], alpha>>

\* lines 108-118
RECURSIVE put_block(_, _, _, _, _, _, _)
put_block(res, x, y, alpha, sub_pixels, lo, hi) ==
    IF lo > hi \/ ~res.ok
    THEN res
    ELSE IF lo = hi
    THEN put_pixel(res,
                   x * 16 + sub_pixels[lo][1],
                   y * 16 + sub_pixels[lo][2],
                   tile_rgba(sub_pixels[lo], alpha))
    ELSE LET mid == (lo + hi) \div 2
             first_half == put_block(res, x, y, alpha, sub_pixels, lo, mid)
         IN  put_block(first_half, x, y, alpha, sub_pixels, mid + 1, hi)

\* lines 98-119
RECURSIVE blockify_pixels(_, _, _, _, _)
blockify_pixels(res, pxs, blocks, lo, hi) ==
    IF lo > hi \/ ~res.ok
    THEN res
    ELSE IF lo = hi
    THEN LET alpha == pxs[lo][3][4]
             selected == get_closest_match(get_lab(pxs[lo]), blocks)
         IN  IF alpha = 0
             THEN res
             ELSE IF selected = Panic \/ ~BlockDir[selected].valid
             THEN [ok |-> FALSE]
             ELSE LET sub_pixels == pixels_of(BlockDir[selected])
                  IN  put_block(res, pxs[lo][1], pxs[lo][2], alpha,
                                sub_pixels, 1, Len(sub_pixels))
    ELSE LET mid == (lo + hi) \div 2
             first_half == blockify_pixels(res, pxs, blocks, lo, mid)
         IN  blockify_pixels(first_half, pxs, blocks, mid + 1, hi)

\* lines 93-119: the new texture of a target file, or a panic.  Every
\* pixel of a blank target takes the continue of line 101, so the loop
\* leaves the buffer of line 97 as it is.  The u32 products width * 16 and
\* height * 16 wrap from 2^28 on, a size no file of OutputDir has.
new_texture_of(content, blocks) ==
    IF ~content.valid
    THEN [ok |-> FALSE]
    ELSE IF is_blank(content)
    THEN [ok |-> TRUE, img |-> from_fn(content.w * 16, content.h * 16)]
    ELSE blockify_pixels([ok |-> TRUE,
                          img |-> from_fn(content.w * 16, content.h * 16)],
                         pixels_of(content), blocks, 1, Len(content.px))

\* The palettes get_average_colors can return: the signatures of accepted
\* candidates, in any order of arrival.
PossiblePalettes ==
    LET accepted == {p \in DOMAIN BlockDir : Averaged[p].tag = "push"}
    IN  UNION {{collect([i \in 1..n |-> <<q[i], Averaged[q[i]].distances>>]) :
                  q \in {r \in [1..n -> accepted] :
                            \A i, j \in 1..n : r[i] = r[j] => i = j}}
               : n \in 0..MaxBlockFiles}

\* The outcome of the task of every file of OutputDir under every palette.
NewTextures ==
    [blocks \in PossiblePalettes, t \in DOMAIN OutputDir |->
        new_texture_of(OutputDir[t], blocks)]

\* line 124: (width * 16) * (height * 16) is a product of u32 values, made
\* before the conversion to u128.  It equals 256 * (width * height), so it
\* exceeds u32 exactly when width * height reaches 2^24, and its low 32 bits
\* are 256 * ((width * height) % 2^24).
written_pixels(width, height) ==
    [overflow |-> width * height >= 2^24,
     value |-> 256 * ((width * height) % 2^24)]

(***************************************************************************)
(* Spec: the run of blockify from line 29 on.                              *)
(***************************************************************************)
Subsets(S, n) == {T \in SUBSET S : Cardinality(T) <= n}

GcmIdle ==
    /\ gcm_pc = "idle"
    /\ gcm_lab = None
    /\ gcm_palette = <<>>
    /\ gcm_blocks = <<>>
    /\ gcm_depth = 0
    /\ gcm_ret = None

Init ==
    /\ GcmIdle
    /\ block_files \in Subsets(DOMAIN BlockDir, MaxBlockFiles)
    /\ texture_files \in Subsets(DOMAIN OutputDir, MaxTextures)
    /\ files = [t \in texture_files |-> OutputDir[t]]
    /\ main = "get_average_colors"
    /\ pc1 = [b \in block_files |-> "println"]
    /\ distances = [b \in block_files |-> <<>>]
    /\ averages = <<>>
    /\ averages_lock = None
    /\ average_block_colors = <<>>
    /\ pc2 = [t \in texture_files |-> "lock"]
    /\ dimensions = [t \in texture_files |-> <<0, 0>>]
    /\ pixels = 0
    /\ pixels_lock = None
    /\ pixels_poisoned = FALSE
    /\ overflow_checks \in BOOLEAN

phase2_vars == <<texture_files, files, pc2, dimensions, pixels, pixels_lock,
                 pixels_poisoned, overflow_checks>>
phase1_vars == <<block_files, pc1, distances, averages, averages_lock>>

\* line 46
P1Println(b) ==
    /\ main = "get_average_colors"
    /\ pc1[b] = "println"
    /\ pc1' = [pc1 EXCEPT ![b] = "average"]
    /\ UNCHANGED <<block_files, distances, averages, averages_lock, main,
                   average_block_colors, phase2_vars, gcm_vars>>

\* lines 47-69
P1Average(b) ==
    /\ main = "get_average_colors"
    /\ pc1[b] = "average"
    /\ LET r == Averaged[b]
       IN  /\ pc1' = [pc1 EXCEPT ![b] =
                        CASE r.tag = "panic" -> "panicked"
                          [] r.tag = "return" -> "done"
                          [] r.tag = "push" -> "lock"]
           /\ distances' = [distances EXCEPT ![b] =
                              IF r.tag = "push" THEN r.distances ELSE <<>>]
    /\ UNCHANGED <<block_files, averages, averages_lock, main,
                   average_block_colors, phase2_vars, gcm_vars>>

\* line 70: averages.lock()
P1Lock(b) ==
    /\ main = "get_average_colors"
    /\ pc1[b] = "lock"
    /\ averages_lock = None
    /\ averages_lock' = b
    /\ pc1' = [pc1 EXCEPT ![b] = "push"]
    /\ UNCHANGED <<block_files, distances, averages, main,
                   average_block_colors, phase2_vars, gcm_vars>>

\* line 70: push((image, distances)); the guard is dropped with the statement
P1Push(b) ==
    /\ main = "get_average_colors"
    /\ pc1[b] = "push"
    /\ averages_lock = b
    /\ averages' = Append(averages, <<b, distances[b]>>)
    /\ distances' = [distances EXCEPT ![b] = <<>>]
    /\ averages_lock' = None
    /\ pc1' = [pc1 EXCEPT ![b] = "done"]
    /\ UNCHANGED <<block_files, main, average_block_colors, phase2_vars, gcm_vars>>

\* pdtthread::multithread returns after all items complete.
multithread_returned(pc) == \A i \in DOMAIN pc : pc[i] = "done"

\* lines 74 and 29: the Vec leaves the mutex and becomes the palette
P1Return ==
    /\ main = "get_average_colors"
    /\ multithread_returned(pc1)
    /\ average_block_colors' = averages
    /\ averages' = <<>>
    /\ main' = "blockify_images"
    /\ UNCHANGED <<block_files, pc1, distances, averages_lock, phase2_vars, gcm_vars>>

\* lines 29-30: blockify_images is called once get_average_colors returned
phase2_started_early == main \in {"get_average_colors", "blockify_images"}

phase2_started == main = "blockify_images"

\* line 86: lock() waits for the mutex; unwrap() panics if it is poisoned
P2Lock(t) ==
    /\ phase2_started
    /\ pc2[t] = "lock"
    /\ pixels_lock = None
    /\ IF pixels_poisoned
       THEN /\ pc2' = [pc2 EXCEPT ![t] = "panicked"]
            /\ UNCHANGED pixels_lock
       ELSE /\ pc2' = [pc2 EXCEPT ![t] = "println"]
            /\ pixels_lock' = t
    /\ UNCHANGED <<texture_files, files, dimensions, pixels, pixels_poisoned,
                   overflow_checks, main, average_block_colors, phase1_vars,
                   gcm_vars>>

\* lines 87-91: the progress line is printed, then the guard is dropped
P2Println(t) ==
    /\ phase2_started
    /\ pc2[t] = "println"
    /\ pixels_lock = t
    /\ pixels_lock' = None
    /\ pc2' = [pc2 EXCEPT ![t] = "open"]
    /\ UNCHANGED <<texture_files, files, dimensions, pixels, pixels_poisoned,
                   overflow_checks, main, average_block_colors, phase1_vars,
                   gcm_vars>>

\* lines 93-121: the file is read as the pack's copy left it, since no
\* other task writes this path.
P2Blockify(t) ==
    /\ phase2_started
    /\ pc2[t] = "open"
    /\ files[t] = OutputDir[t]
    /\ LET r == NewTextures[average_block_colors, t]
       IN  IF r.ok
           THEN /\ files' = [files EXCEPT ![t] = r.img]
                /\ dimensions' = [dimensions EXCEPT ![t] = <<files[t].w, files[t].h>>]
                /\ pc2' = [pc2 EXCEPT ![t] = "lock_count"]
           ELSE /\ pc2' = [pc2 EXCEPT ![t] = "panicked"]
                /\ UNCHANGED <<files, dimensions>>
    /\ UNCHANGED <<texture_files, pixels, pixels_lock, pixels_poisoned,
                   overflow_checks, main, average_block_colors, phase1_vars,
                   gcm_vars>>

\* line 123
P2LockCount(t) ==
    /\ phase2_started
    /\ pc2[t] = "lock_count"
    /\ pixels_lock = None
    /\ IF pixels_poisoned
       THEN /\ pc2' = [pc2 EXCEPT ![t] = "panicked"]
            /\ UNCHANGED pixels_lock
       ELSE /\ pc2' = [pc2 EXCEPT ![t] = "add"]
            /\ pixels_lock' = t
    /\ UNCHANGED <<texture_files, files, dimensions, pixels, pixels_poisoned,
                   overflow_checks, main, average_block_colors, phase1_vars,
                   gcm_vars>>

\* lines 124-125.  A product that overflows panics under overflow checks:
\* the unwinding drops the guard and leaves the mutex poisoned.  Without
\* them the product wraps and its low 32 bits are added.
P2Add(t) ==
    /\ phase2_started
    /\ pc2[t] = "add"
    /\ pixels_lock = t
    /\ LET product == written_pixels(dimensions[t][1], dimensions[t][2])
       IN  IF product.overflow /\ overflow_checks
           THEN /\ pc2' = [pc2 EXCEPT ![t] = "panicked"]
                /\ pixels_poisoned' = TRUE
                /\ UNCHANGED pixels
           ELSE /\ pc2' = [pc2 EXCEPT ![t] = "done"]
                /\ pixels' = pixels + product.value
                /\ UNCHANGED pixels_poisoned
    /\ pixels_lock' = None
    /\ UNCHANGED <<texture_files, files, dimensions, overflow_checks, main,
                   average_block_colors, phase1_vars, gcm_vars>>

\* line 30: blockify_images returns
P2Return ==
    /\ main = "blockify_images"
    /\ multithread_returned(pc2)
    /\ main' = "done"
    /\ UNCHANGED <<average_block_colors, phase1_vars, phase2_vars, gcm_vars>>

\* A panic of a task is fatal for the run; its peers are not cancelled
\* first, so they may take steps until the process ends.
Abort ==
    /\ \/ main = "get_average_colors" /\ \E b \in DOMAIN pc1 : pc1[b] = "panicked"
       \/ main = "blockify_images" /\ \E t \in DOMAIN pc2 : pc2[t] = "panicked"
    /\ main' = "aborted"
    /\ UNCHANGED <<average_block_colors, phase1_vars, phase2_vars, gcm_vars>>

Next ==
    \/ \E b \in DOMAIN pc1 : P1Println(b)
    \/ \E b \in DOMAIN pc1 : P1Average(b)
    \/ \E b \in DOMAIN pc1 : P1Lock(b)
    \/ \E b \in DOMAIN pc1 : P1Push(b)
    \/ P1Return
    \/ \E t \in DOMAIN pc2 : P2Lock(t)
    \/ \E t \in DOMAIN pc2 : P2Println(t)
    \/ \E t \in DOMAIN pc2 : P2Blockify(t)
    \/ \E t \in DOMAIN pc2 : P2LockCount(t)
    \/ \E t \in DOMAIN pc2 : P2Add(t)
    \/ P2Return
    \/ Abort

Spec == Init /\ [][Next]_vars

(***************************************************************************)
(* Properties of get_closest_match (SpecResolver).                         *)
(***************************************************************************)
PathsOf(blocks) == {blocks[i][1] : i \in 1..Len(blocks)}

FirstDistance(lab, blocks, i) == DeltaE(lab, blocks[i][2][1][3])

\* Indices of the blocks whose first entry is nearest to lab.
Tied(lab, blocks) ==
    {i \in 1..Len(blocks) :
        \A j \in 1..Len(blocks) :
            FirstDistance(lab, blocks, i) <= FirstDistance(lab, blocks, j)}

RECURSIVE LexLeq(_, _)
LexLeq(a, b) ==
    \/ a = <<>>
    \/ /\ b # <<>>
       /\ \/ a[1] < b[1]
          \/ (a[1] = b[1] /\ LexLeq(Tail(a), Tail(b)))

Orderings(blocks) ==
    LET n == Len(blocks)
    IN  {[i \in 1..n |-> blocks[f[i]]] :
           f \in {g \in [1..n -> 1..n] : \A i, j \in 1..n : g[i] = g[j] => i = j}}

\* C1: under a non-empty palette whose signatures all have at least one
\* entry, get_closest_match never panics, and whatever it returns is the
\* path of a candidate of that palette.
C1_NeverFails ==
    /\ gcm_pc # "panicked"
    /\ gcm_pc = "returned" => gcm_ret \in PathsOf(gcm_palette)

\* C2: a returned path belongs to a candidate whose first entry is at the
\* minimal distance from the query among the top-level palette; a unique
\* nearest candidate is the one returned; and every recursive round works
\* only on candidates tied at that minimum.
C2_ReturnsNearest ==
    /\ gcm_pc = "returned" =>
          /\ \E i \in Tied(gcm_lab, gcm_palette) : gcm_palette[i][1] = gcm_ret
          /\ \A i \in Tied(gcm_lab, gcm_palette) :
                Tied(gcm_lab, gcm_palette) = {i} => gcm_ret = gcm_palette[i][1]
    /\ (gcm_pc # "idle" /\ gcm_depth > 0) =>
          PathsOf(gcm_blocks) \subseteq
              {gcm_palette[i][1] : i \in Tied(gcm_lab, gcm_palette)}

C2_Witness ==
    /\ gcm_pc = "returned"
    /\ gcm_depth > 0
    /\ Cardinality(Tied(gcm_lab, gcm_palette)) < Len(gcm_palette)
    /\ gcm_ret # gcm_palette[1][1]

\* C3: when the round that returns has two or more candidates tied at the
\* minimal distance and each of them has exactly one colour entry left, the
\* returned path is the lexicographically smallest path of the tied ones.
C3_TieByPath ==
    (/\ gcm_pc = "returned"
     /\ Cardinality(Tied(gcm_lab, gcm_blocks)) >= 2
     /\ \A i \in Tied(gcm_lab, gcm_blocks) : Len(gcm_blocks[i][2]) = 1)
    => /\ \E i \in Tied(gcm_lab, gcm_blocks) : gcm_blocks[i][1] = gcm_ret
       /\ \A i \in Tied(gcm_lab, gcm_blocks) : LexLeq(gcm_ret, gcm_blocks[i][1])

C3_Witness ==
    /\ gcm_pc = "returned"
    /\ Cardinality(Tied(gcm_lab, gcm_blocks)) >= 2
    /\ \A i \in Tied(gcm_lab, gcm_blocks) : Len(gcm_blocks[i][2]) = 1
    /\ gcm_ret = PathAB
    /\ \E i \in Tied(gcm_lab, gcm_blocks) :
          i < CHOOSE k \in 1..Len(gcm_blocks) : gcm_blocks[k][1] = PathAB

\* C4: the outcome of a call (the returned path, or the panic) is the
\* same for every ordering of the palette vector.
C4_OrderIndependent ==
    gcm_pc \in {"returned", "panicked"} =>
        \A perm \in Orderings(gcm_palette) :
            get_closest_match(gcm_lab, perm)
                = IF gcm_pc = "returned" THEN gcm_ret ELSE Panic

C4_Witness ==
    /\ gcm_pc = "returned"
    /\ Len(gcm_palette) = 3
    /\ Cardinality(Tied(gcm_lab, gcm_palette)) = 3
    /\ gcm_ret = gcm_palette[3][1]

(***************************************************************************)
(* Properties of the run (Spec).                                           *)
(***************************************************************************)
\* A candidate file the palette is to hold: 16 x 16 and fully opaque.
Accepted(content) ==
    /\ content.valid
    /\ content.w = 16
    /\ content.h = 16
    /\ \A k \in 1..Len(content.px) : content.px[k][4] = 255

Phase1Returned == main \in {"blockify_images", "done"}

\* C5: once get_average_colors has returned, the palette holds a signature
\* for a candidate path iff that image is 16 x 16 and fully opaque, and it
\* holds at most one signature per path.
C5_PaletteMembership ==
    Phase1Returned =>
        /\ \A p \in block_files :
              p \in PathsOf(average_block_colors) <=> Accepted(BlockDir[p])
        /\ PathsOf(average_block_colors) \subseteq block_files
        /\ \A i, j \in 1..Len(average_block_colors) :
              average_block_colors[i][1] = average_block_colors[j][1] => i = j

C5_Witness ==
    /\ Phase1Returned
    /\ Len(average_block_colors) = 1
    /\ \E p \in block_files : BlockDir[p].w = 16 /\ BlockDir[p].h = 16
                              /\ ~Accepted(BlockDir[p])

\* C6: no signature pushed by get_average_colors holds two equal entries,
\* at any two positions.
C6_NoDuplicateEntries ==
    \A i \in 1..Len(averages) :
        \A j, k \in 1..Len(averages[i][2]) :
            averages[i][2][j] = averages[i][2][k] => j = k

Saved(t) == pc2[t] \in {"lock_count", "add", "done"}

\* The mosaic of src under the palette blocks, pixel by pixel.
IsMosaic(out, src, blocks) ==
    /\ out.valid
    /\ out.w = 16 * src.w
    /\ out.h = 16 * src.h
    /\ ~is_blank(out) => Len(out.px) = out.w * out.h
    /\ IF is_blank(src)
       THEN is_blank(out)
       ELSE \A x \in 0..(src.w - 1), y \in 0..(src.h - 1) :
              LET source == PixelAt(src, x, y)
                  a == source[4]
                  selected == get_closest_match(
                                  rgbs_to_labs(<<source[1], source[2], source[3]>>),
                                  blocks)
              IN  IF a = 0
                  THEN \A i, j \in 0..15 :
                          PixelAt(out, 16 * x + i, 16 * y + j) = <<0, 0, 0, 0>>
                  ELSE /\ selected \in DOMAIN BlockDir
                       /\ \A i, j \in 0..15 :
                             LET b == PixelAt(BlockDir[selected], i, j)
                             IN  PixelAt(out, 16 * x + i, 16 * y + j)
                                     = <<b[1], b[2], b[3], a>>

\* C7: a written texture is 16 times the source in each axis; the tile of
\* a source pixel of alpha 0 is fully transparent, and every other tile has
\* the RGB of the block resolved for its source pixel and the source alpha.
C7_Composited ==
    \A t \in texture_files :
        Saved(t) => IsMosaic(files[t], OutputDir[t], average_block_colors)

C7_Witness ==
    /\ PathT \in texture_files
    /\ Saved(PathT)
    /\ PixelAt(files[PathT], 3, 14) = <<0, 0, 0, 200>>
    /\ PixelAt(files[PathT], 3, 15) = <<255, 255, 255, 200>>
    /\ PixelAt(files[PathT], 3, 16) = <<0, 0, 0, 0>>

\* C8: a task that holds one of the two mutexes is not at a statement that
\* does I/O (println, image::open, save).
C8_NoIOUnderLock ==
    /\ \A b \in block_files :
          averages_lock = b => pc1[b] \notin {"println", "average"}
    /\ \A t \in texture_files :
          pixels_lock = t => pc2[t] \notin {"println", "open"}

\* C9: a compositing task has started only if get_average_colors has
\* returned with every candidate's task finished, and from then on no step
\* changes the palette.
C9_PhasesSequenced ==
    /\ [](( \E t \in texture_files : pc2[t] # "lock") =>
            /\ main # "get_average_colors"
            /\ \A b \in block_files : pc1[b] = "done"
            /\ averages_lock = None)
    /\ [][main # "get_average_colors" =>
            average_block_colors' = average_block_colors]_vars

C9_Witness ==
    /\ main = "done"
    /\ Len(average_block_colors) = 2
    /\ \E t \in texture_files : pc2[t] = "done"

\* n = 256 * k, stated without a product that exceeds the integers.
Is256Times(n, k) == n % 256 = 0 /\ n \div 256 = k

\* The destination pixels of a target image, (16w)(16h), in units of 256.
DestinationTiles(t) == OutputDir[t].w * OutputDir[t].h

RECURSIVE SumOfDestinationTiles(_)
SumOfDestinationTiles(S) ==
    IF S = {}
    THEN 0
    ELSE LET t == CHOOSE u \in S : TRUE
         IN  DestinationTiles(t) + SumOfDestinationTiles(S \ {t})

\* C10: the counter starts at 0, is the sum of (16w)(16h) over the tasks
\* that have made their update, and so is the sum over all textures when
\* phase 2 has ended; it changes only in a step of a task that holds the
\* mutex and has saved its image, which adds that image's destination
\* pixels; and a task makes its update in the one step that finishes it.
C10_PixelCounter ==
    /\ [](/\ Is256Times(pixels, SumOfDestinationTiles(
                                    {t \in texture_files : pc2[t] = "done"}))
          /\ main = "done" =>
                Is256Times(pixels, SumOfDestinationTiles(texture_files)))
    /\ [][pixels' # pixels =>
            \E t \in texture_files :
                /\ pixels_lock = t
                /\ pc2[t] = "add" /\ pc2'[t] = "done"
                /\ IsMosaic(files[t], OutputDir[t], average_block_colors)
                /\ pixels' > pixels
                /\ Is256Times(pixels' - pixels, DestinationTiles(t))]_vars

=============================================================================
